---- MODULE Spec2Model ----
(***************************************************************************)
(* A model of the retrieval-augmented chatbot's core:                      *)
(*   - chunkText            (src/utils/text-chunking.ts)                   *)
(*   - generateEmbeddings   (src/unnamed/part_005, lib/openai/embeddings)  *)
(*   - retrieveRelevantChunks (src/app/api/chat/route.ts)                  *)
(*   - POST and DELETE /api/upload (src/app/api/upload/route.ts)           *)
(* Strings are sequences of one-character strings; string indexes are the  *)
(* 0-based indexes of the source, so the character at index i of s is      *)
(* s[i + 1].  Similarities are hundredths (0.30 is 30, 0.5 is 50).         *)
(***************************************************************************)
EXTENDS Integers, Sequences, FiniteSets, TLC

(***************************************************************************)
(* Bounds of the model.                                                    *)
(***************************************************************************)
MaxLen == 4
MaxChunk == 3
MaxOverlap == 3
MaxIter == MaxLen + 2
MaxTexts == 3
MaxTopK == 3
MaxId == 3
MaxExtractedLen == 2
MaxDeletes == 2

Max2(a, b) == IF a >= b THEN a ELSE b
Min2(a, b) == IF a <= b THEN a ELSE b

RECURSIVE SeqsUpTo(_, _)
SeqsUpTo(S, n) ==
  IF n = 0 THEN {<<>>}
  ELSE LET shorter == SeqsUpTo(S, n - 1)
       IN  shorter \cup {Append(s, c) : s \in {t \in shorter : Len(t) = n - 1}, c \in S}

(***************************************************************************)
(* chunkText: src/utils/text-chunking.ts                                   *)
(***************************************************************************)
Whitespace == {" ", "\n"}
Alphabet == {"a", ".", "?", "!", " ", "\n"}

\* text.replace(/\s+/g, ' '): every maximal whitespace run becomes one space.
RECURSIVE CollapseRange(_, _, _)
CollapseRange(s, lo, hi) ==
  IF lo > hi THEN <<>>
  ELSE IF lo = hi
       THEN IF s[lo] \in Whitespace
            THEN IF lo < Len(s) /\ s[lo + 1] \in Whitespace THEN <<>> ELSE <<" ">>
            ELSE <<s[lo]>>
       ELSE LET mid == (lo + hi) \div 2
            IN  CollapseRange(s, lo, mid) \o CollapseRange(s, mid + 1, hi)

CollapseWs(s) == CollapseRange(s, 1, Len(s))

\* String.prototype.trim(): leading and trailing whitespace removed.
RECURSIVE TrimStart(_)
TrimStart(s) ==
  IF s # <<>> /\ Head(s) \in Whitespace THEN TrimStart(Tail(s)) ELSE s

RECURSIVE TrimEnd(_)
TrimEnd(s) ==
  IF s # <<>> /\ s[Len(s)] \in Whitespace
  THEN TrimEnd(SubSeq(s, 1, Len(s) - 1))
  ELSE s

Trim(s) == TrimEnd(TrimStart(s))

CleanTextTrimOnly(t) == Trim(t)

CleanText(t) == Trim(CollapseWs(t))

\* s.lastIndexOf(needle, pos): the largest 0-based index i <= pos at which
\* needle occurs in s, or -1.
LastIndexOf(s, needle, pos) ==
  LET top == Min2(Max2(pos, 0), Len(s) - Len(needle))
      hits == {i \in 0..top : SubSeq(s, i + 1, i + Len(needle)) = needle}
  IN  IF hits = {} THEN -1 ELSE CHOOSE i \in hits : \A j \in hits : j <= i

\* s.slice(a, b): a negative index counts from the end of s.
RelativeIndex(i, len) == IF i < 0 THEN Max2(len + i, 0) ELSE Min2(i, len)

Slice(s, a, b) == SubSeq(s, RelativeIndex(a, Len(s)) + 1, RelativeIndex(b, Len(s)))

SentenceBoundary(clean, naiveEnd) ==
  Max2(LastIndexOf(clean, <<".", " ">>, naiveEnd),
       Max2(LastIndexOf(clean, <<"?", " ">>, naiveEnd),
            LastIndexOf(clean, <<"!", " ">>, naiveEnd)))

\* A variant of EndIndex that takes the nearest boundary of either kind.
EndIndexNearestBoundary(clean, start, size) ==
  LET naiveEnd == start + size
  IN  IF naiveEnd < Len(clean)
      THEN LET sb == SentenceBoundary(clean, naiveEnd)
               wb == LastIndexOf(clean, <<" ">>, naiveEnd)
           IN  IF wb > start /\ wb > sb + 1 THEN wb
               ELSE IF sb > start THEN sb + 1
               ELSE naiveEnd
      ELSE naiveEnd

\* The end index of the iteration that starts at start (lines 37-57).
EndIndex(clean, start, size) ==
  LET naiveEnd == start + size
  IN  IF naiveEnd < Len(clean)
      THEN LET sb == SentenceBoundary(clean, naiveEnd)
               wb == LastIndexOf(clean, <<" ">>, naiveEnd)
           IN  IF sb > start THEN sb + 1
               ELSE IF wb > start THEN wb
               ELSE naiveEnd
      ELSE naiveEnd

\* The next start index (lines 70-76).
NextStartSkipsAhead(endIdx, prevStart, ovl) ==
  IF endIdx - ovl <= prevStart THEN endIdx + 1 ELSE endIdx - ovl

NextStart(endIdx, prevStart, ovl) ==
  IF endIdx - ovl <= prevStart THEN endIdx ELSE endIdx - ovl

\* Lines 20-21: the default parameter values, used when the caller passes
\* the text only.
DEFAULT_CHUNK_SIZE == 1000
DEFAULT_OVERLAP == 500

\* The default overlap of the chunkText of src/unnamed/part_001 (line 9).
OLDER_DEFAULT_OVERLAP == 200

ChunkSizeOrDefault(nargs, given) == IF nargs >= 2 THEN given ELSE DEFAULT_CHUNK_SIZE

OverlapOrOlderDefault(nargs, given) == IF nargs >= 3 THEN given ELSE OLDER_DEFAULT_OVERLAP

OverlapOrDefault(nargs, given) == IF nargs >= 3 THEN given ELSE DEFAULT_OVERLAP

\* Longer texts than the enumerated ones, each with its chunkSize and overlap.
HelloWorldText ==
  <<"H", "e", "l", "l", "o", " ", "w", "o", "r", "l", "d", ".", " ",
    "T", "h", "i", "s", " ", "i", "s", " ", "a", " ", "t", "e", "s",
    "t", "!", " ", "A", "n", "o", "t", "h", "e", "r", " ", "s", "e",
    "n", "t", "e", "n", "c", "e", "?">>

SentenceThenWordsText == <<"a", ".", " ", "a", " ", "a">>

ScenarioCalls ==
  { <<HelloWorldText, 20, 5>>,
    <<SentenceThenWordsText, 4, 0>>,
    <<SentenceThenWordsText, 4, 1>> }

\* The chunkText of src/unnamed/part_001.  Its lines 25-45 choose the end
\* index as lines 37-57 of src/utils/text-chunking.ts do.
OlderEndIndex(clean, start, size) == EndIndex(clean, start, size)

\* part_001 lines 58-63: the progress check compares the new start with the
\* length of the last chunk's content; with no chunk the comparison with
\* undefined is false.
OlderNextStart(endIdx, ovl, chs) ==
  IF Len(chs) > 0 /\ endIdx - ovl <= Len(chs[Len(chs)].content)
  THEN endIdx
  ELSE endIdx - ovl

(***************************************************************************)
(* generateEmbeddings: src/unnamed/part_005                                *)
(* A text is [fill, length]: the character fill repeated length times.     *)
(***************************************************************************)
MAX_TOKENS_PER_BATCH == 250000

TextLengths == {1, 5, 500000, 1000000, 1000001}
Texts == [fill : {"a", "b"}, length : TextLengths]

\* Math.ceil(text.length / 4)
estimateTokens(t) == (t.length + 3) \div 4

RECURSIVE SumTokens(_)
SumTokens(batch) ==
  IF batch = <<>> THEN 0 ELSE estimateTokens(Head(batch)) + SumTokens(Tail(batch))

\* Line 40: the current batch is closed before text t.
ClosesBatchEvenIfEmpty(currentBatch, currentBatchTokens, t) ==
  currentBatchTokens + estimateTokens(t) > MAX_TOKENS_PER_BATCH

\* A variant of ClosesBatch that closes the batch when the ceiling is reached.
ClosesBatchAtCeiling(currentBatch, currentBatchTokens, t) ==
  /\ currentBatchTokens + estimateTokens(t) >= MAX_TOKENS_PER_BATCH
  /\ Len(currentBatch) > 0

ClosesBatch(currentBatch, currentBatchTokens, t) ==
  /\ currentBatchTokens + estimateTokens(t) > MAX_TOKENS_PER_BATCH
  /\ Len(currentBatch) > 0

\* Lines 32-53: the for loop over texts from position k on, then the last push.
RECURSIVE PlanFrom(_, _, _, _, _)
PlanFrom(ts, k, planned, currentBatch, currentBatchTokens) ==
  IF k > Len(ts)
  THEN IF Len(currentBatch) > 0 THEN Append(planned, currentBatch) ELSE planned
  ELSE IF ClosesBatch(currentBatch, currentBatchTokens, ts[k])
       THEN PlanFrom(ts, k + 1, Append(planned, currentBatch), <<ts[k]>>,
                     estimateTokens(ts[k]))
       ELSE PlanFrom(ts, k + 1, planned, Append(currentBatch, ts[k]),
                     currentBatchTokens + estimateTokens(ts[k]))

PlanBatches(ts) == PlanFrom(ts, 1, <<>>, <<>>, 0)

\* The embedding service: one vector per input, in input order (lines 62-67).
EmbeddingOf(t) == <<"embedding", t>>
ServiceResponse(batch) == [k \in 1..Len(batch) |-> EmbeddingOf(batch[k])]

\* Line 68: allEmbeddings.push(...batchEmbeddings)
PushInFront(all, batchEmbeddings) == batchEmbeddings \o all

PushAll(all, batchEmbeddings) == all \o batchEmbeddings

\* The upstream errors; "" is an error that carries no message.
UpstreamErrors == {"rate limit exceeded", ""}

\* Line 76: the message of the error generateEmbeddings throws for batch i.
FailureMessage(i, upstream) ==
  <<"Failed to generate embeddings for batch ", i + 1, ": ",
    IF upstream # "" THEN upstream ELSE "Unknown error">>

Pending == [kind |-> "pending"]

(***************************************************************************)
(* retrieveRelevantChunks: src/app/api/chat/route.ts                       *)
(* A result entry is [id, similarity, via]; via records the collaborator   *)
(* the row came from and is not a field of the program's rows.             *)
(***************************************************************************)
(* POST /api/upload: src/app/api/upload/route.ts                           *)
(***************************************************************************)
\* chunkText as a function: the while loop of lines 35-82 from startIndex on.
RECURSIVE ChunkLoop(_, _, _, _, _)
ChunkLoop(clean, size, ovl, start, chs) ==
  IF start >= Len(clean) THEN chs
  ELSE LET endIdx == EndIndex(clean, start, size)
           content == Trim(Slice(clean, start, endIdx))
           pushed == IF Len(content) > 0
                     THEN Append(chs, [content |-> content, index |-> Len(chs)])
                     ELSE chs
       IN  ChunkLoop(clean, size, ovl, NextStart(endIdx, start, ovl), pushed)

\* upload/route.ts line 124: chunkText(extractedText), with the defaults.
ChunkTextOf(t) ==
  ChunkLoop(CleanText(t), ChunkSizeOrDefault(1, 0), OverlapOrDefault(1, 0), 0, <<>>)

\* A chunk's content as a text given to generateEmbeddings: the text is named
\* by its characters and carries its length.
AsText(content) == [fill |-> content, length |-> Len(content)]

\* Line 136: chunks.map(c => c.content)
ContentsOf(chs) == [k \in 1..Len(chs) |-> AsText(chs[k].content)]

\* generateEmbeddings on a run in which every service call succeeds
\* (part_005 lines 56-80): the batches' responses pushed in batch order.
RECURSIVE EmbedBatches(_, _)
EmbedBatches(bs, all) ==
  IF bs = <<>> THEN all
  ELSE EmbedBatches(Tail(bs), PushAll(all, ServiceResponse(Head(bs))))

GenerateEmbeddingsOf(ts) == EmbedBatches(PlanBatches(ts), <<>>)

\* Lines 140-146: chunksToInsert.
RowsToInsert(chs, embeddings) ==
  [k \in 1..Len(chs) |->
     [content |-> chs[k].content,
      embedding |-> embeddings[k],
      chunk_index |-> chs[k].index,
      token_count |-> (Len(chs[k].content) + 3) \div 4]]

\* A document longer than the default chunk size: words of nine letters, a
\* sentence end every fifty characters.
LongDocumentText ==
  [i \in 1..1200 |->
     IF i % 10 = 0 THEN " " ELSE IF i % 50 = 49 THEN "." ELSE "a"]

\* The texts that extraction can give.
ExtractedTexts == SeqsUpTo(Alphabet, MaxExtractedLen) \cup {LongDocumentText}

ErrorResponse(status, stage) ==
  [kind |-> "error", status |-> status, stage |-> stage, caught |-> FALSE]

\* Lines 172-182 and 297-303: the response of the catch block around the
\* whole handler; stage names the call that threw or rejected.
CaughtResponse(stage) ==
  [kind |-> "error", status |-> 500, stage |-> stage, caught |-> TRUE]

SuccessResponse(count) == [kind |-> "success", status |-> 200, chunksCount |-> count]

(***************************************************************************)
MATCH_THRESHOLD == 30
KEYWORD_SIMILARITY == 50
SPARSE_BELOW == 3
KEYWORD_MIN_LENGTH == 3
KEYWORD_LIMIT == 5

ChunkIds == 1..MaxId
VectorSims == {31, 50, 80}

Queries ==
  { <<"a", " ", "i", "s", " ", "i", "t">>,
    <<>>,
    <<"W", "h", "a", "t", " ", "I", "S", " ", "p", "g", "v", "e", "c", "t", "o", "r">>,
    <<" ", "f", "i", "n", "d", "\n", " ", "t", "h", "e", " ", "I", "N", "D", "E", "X", " ">>,
    <<"a", "l", "p", "h", "a", " ", "b", "e", "t", "a", " ", "g", "a", "m", "m", "a", " ", "d", "e", "l", "t", "a", " ", "e", "p", "s", "i", "l", "o", "n", " ", "z", "e", "t", "a">>,
    <<"d", "o", "c", "s">> }

\* String.prototype.toLowerCase() on the letters A-Z.
LowerOf(c) ==
  CASE c = "A" -> "a"
    [] c = "B" -> "b"
    [] c = "C" -> "c"
    [] c = "D" -> "d"
    [] c = "E" -> "e"
    [] c = "F" -> "f"
    [] c = "G" -> "g"
    [] c = "H" -> "h"
    [] c = "I" -> "i"
    [] c = "J" -> "j"
    [] c = "K" -> "k"
    [] c = "L" -> "l"
    [] c = "M" -> "m"
    [] c = "N" -> "n"
    [] c = "O" -> "o"
    [] c = "P" -> "p"
    [] c = "Q" -> "q"
    [] c = "R" -> "r"
    [] c = "S" -> "s"
    [] c = "T" -> "t"
    [] c = "U" -> "u"
    [] c = "V" -> "v"
    [] c = "W" -> "w"
    [] c = "X" -> "x"
    [] c = "Y" -> "y"
    [] c = "Z" -> "z"
    [] OTHER -> c

ToLowerCase(s) == [i \in 1..Len(s) |-> LowerOf(s[i])]

\* s.split(/\s+/): the pieces between maximal whitespace runs; a leading or
\* trailing run leaves an empty piece, and "" splits into [""].
RECURSIVE SplitFrom(_, _, _)
SplitFrom(s, k, piece) ==
  IF k > Len(s) THEN <<piece>>
  ELSE IF s[k] \in Whitespace
       THEN IF k < Len(s) /\ s[k + 1] \in Whitespace
            THEN SplitFrom(s, k + 1, piece)
            ELSE <<piece>> \o SplitFrom(s, k + 1, <<>>)
       ELSE SplitFrom(s, k + 1, Append(piece, s[k]))

SplitWs(s) == SplitFrom(s, 1, <<>>)

\* Line 28: word.length > 3
IsKeywordShorter(word) == Len(word) >= KEYWORD_MIN_LENGTH

IsKeyword(word) == Len(word) > KEYWORD_MIN_LENGTH

\* Line 28: words.filter(word => word.length > 3)
RECURSIVE FilterKeywords(_)
FilterKeywords(words) ==
  IF words = <<>> THEN <<>>
  ELSE IF IsKeyword(Head(words))
       THEN <<Head(words)>> \o FilterKeywords(Tail(words))
       ELSE FilterKeywords(Tail(words))

\* Lines 25-29
Keywords(q) == Slice(FilterKeywords(SplitWs(ToLowerCase(q))), 0, KEYWORD_LIMIT)

\* Line 36: one ILIKE condition per keyword; the joined string is truthy
\* exactly when there is a condition.
KeywordConditions(kws) == [k \in 1..Len(kws) |-> <<"content ILIKE '%", kws[k], "%'">>]

\* Line 33: !vectorResults || vectorResults.length < 3
IsSparseOrThree(v) == v.isNull \/ Len(v.rows) <= SPARSE_BELOW

IsSparse(v) == v.isNull \/ Len(v.rows) < SPARSE_BELOW

\* vectorResults || []
OrEmpty(v) == IF v.isNull THEN <<>> ELSE v.rows

\* A variant of WithDefaultSimilarity that gives the vector threshold instead.
WithThresholdSimilarity(rows) ==
  [k \in 1..Len(rows) |->
     [id |-> rows[k], similarity |-> MATCH_THRESHOLD, via |-> "keyword"]]

\* Lines 46-49: every keyword row gets the default similarity.
WithDefaultSimilarity(rows) ==
  [k \in 1..Len(rows) |->
     [id |-> rows[k], similarity |-> KEYWORD_SIMILARITY, via |-> "keyword"]]

IndexOfId(entries, id) ==
  IF \E k \in 1..Len(entries) : entries[k].id = id
  THEN CHOOSE k \in 1..Len(entries) : entries[k].id = id
  ELSE 0

\* A variant of Deduplicate in which the last entry of an id always wins.
RECURSIVE DeduplicateLastWins(_, _)
DeduplicateLastWins(allResults, unique) ==
  IF allResults = <<>> THEN unique
  ELSE LET r == Head(allResults)
           at == IndexOfId(unique, r.id)
       IN  IF at = 0
           THEN DeduplicateLastWins(Tail(allResults), Append(unique, r))
           ELSE DeduplicateLastWins(Tail(allResults), [unique EXCEPT ![at] = r])

\* A variant of Deduplicate in which the first entry of an id always stays.
RECURSIVE DeduplicateFirstWins(_, _)
DeduplicateFirstWins(allResults, unique) ==
  IF allResults = <<>> THEN unique
  ELSE LET r == Head(allResults)
           at == IndexOfId(unique, r.id)
       IN  IF at = 0
           THEN DeduplicateFirstWins(Tail(allResults), Append(unique, r))
           ELSE DeduplicateFirstWins(Tail(allResults), unique)

\* Lines 59-66: the Map keeps keys in first-insertion order; a later entry
\* replaces the stored one only when its similarity is strictly higher.
RECURSIVE Deduplicate(_, _)
Deduplicate(allResults, unique) ==
  IF allResults = <<>> THEN unique
  ELSE LET r == Head(allResults)
           at == IndexOfId(unique, r.id)
       IN  IF at = 0
           THEN Deduplicate(Tail(allResults), Append(unique, r))
           ELSE IF r.similarity # 0 /\ r.similarity > unique[at].similarity
                THEN Deduplicate(Tail(allResults), [unique EXCEPT ![at] = r])
                ELSE Deduplicate(Tail(allResults), unique)

\* Lines 58-66: allResults is the vector rows followed by the keyword rows.
MergeResults(vectorRows, keywordResults) ==
  Deduplicate(vectorRows \o keywordResults, <<>>)

\* A variant of InsertBySimilarity that puts a tied entry first.
RECURSIVE InsertTiedFirst(_, _)
InsertTiedFirst(sorted, r) ==
  IF sorted = <<>> THEN <<r>>
  ELSE IF Head(sorted).similarity > r.similarity
       THEN <<Head(sorted)>> \o InsertTiedFirst(Tail(sorted), r)
       ELSE <<r>> \o sorted

\* Line 70: Array.prototype.sort with (b.similarity) - (a.similarity) is a
\* stable sort by similarity, highest first.
RECURSIVE InsertBySimilarity(_, _)
InsertBySimilarity(sorted, r) ==
  IF sorted = <<>> THEN <<r>>
  ELSE IF Head(sorted).similarity >= r.similarity
       THEN <<Head(sorted)>> \o InsertBySimilarity(Tail(sorted), r)
       ELSE <<r>> \o sorted

RECURSIVE SortFrom(_, _)
SortFrom(entries, sorted) ==
  IF entries = <<>> THEN sorted
  ELSE SortFrom(Tail(entries), InsertBySimilarity(sorted, Head(entries)))

Unsorted(entries) == entries

SortBySimilarity(entries) == SortFrom(entries, <<>>)

\* Line 71: .slice(0, topK)
TakeTopK(entries, k) ==
  IF k >= 0 THEN Slice(entries, 0, k) ELSE Slice(entries, 0, Max2(Len(entries) + k, 0))

\* Lines 58-71
FinalResults(vectorRows, keywordResults, k) ==
  TakeTopK(SortBySimilarity(Deduplicate(vectorRows \o keywordResults, <<>>)), k)

\* Line 8: topK: number = 10, used when the caller passes the query only.
DEFAULT_TOP_K == 10

TopKOrDefault(nargs, given) == IF nargs >= 2 THEN given ELSE DEFAULT_TOP_K

\* POST, lines 121-127: the context block as the sequence of its pieces, the
\* header first and then one numbered entry per chunk; a chunk's content is
\* named by the chunk's id.  The empty string is the empty sequence.
HeaderPiece == [kind |-> "header", number |-> 0, content |-> 0]

\* A variant of EntryPiece that numbers the entries from 0.
EntryPieceFromZero(chunk, idx) ==
  [kind |-> "entry", number |-> idx, content |-> chunk.id]

EntryPiece(chunk, idx) ==
  [kind |-> "entry", number |-> idx + 1, content |-> chunk.id]

RECURSIVE AppendEntries(_, _, _)
AppendEntries(ctx, relevantChunks, idx) ==
  IF idx >= Len(relevantChunks) THEN ctx
  ELSE AppendEntries(Append(ctx, EntryPiece(relevantChunks[idx + 1], idx)),
                     relevantChunks, idx + 1)

BuildContext(relevantChunks) ==
  IF Len(relevantChunks) > 0
  THEN AppendEntries(<<HeaderPiece>>, relevantChunks, 0)
  ELSE <<>>

\* What match_document_chunks can return for match_count = k: at most k rows
\* of distinct chunks, similarity above the threshold, highest first.
VectorRows ==
  {r \in [id : ChunkIds, similarity : VectorSims, via : {"vector"}] :
     r.similarity > MATCH_THRESHOLD}

RECURSIVE VectorRowListsOfLen(_)
VectorRowListsOfLen(n) ==
  IF n = 0 THEN {<<>>}
  ELSE {Append(rows, r) : <<rows, r>> \in
          {p \in VectorRowListsOfLen(n - 1) \X VectorRows :
             /\ \A i \in 1..Len(p[1]) : p[1][i].id # p[2].id
             /\ p[1] # <<>> => p[1][Len(p[1])].similarity >= p[2].similarity}}

VectorRowLists(k) ==
  UNION {VectorRowListsOfLen(n) : n \in 0..Min2(Max2(k, 0), MaxId)}

\* What the keyword select can return with .limit(k): at most k distinct rows.
RECURSIVE KeywordRowListsOfLen(_)
KeywordRowListsOfLen(n) ==
  IF n = 0 THEN {<<>>}
  ELSE {Append(rows, id) : <<rows, id>> \in
          {p \in KeywordRowListsOfLen(n - 1) \X ChunkIds :
             \A i \in 1..Len(p[1]) : p[1][i] # p[2]}}

KeywordRowLists(k) ==
  UNION {KeywordRowListsOfLen(n) : n \in 0..Min2(Max2(k, 0), MaxId)}

\* A supabase response is {data, error}; data is null whenever error is set.
VectorResponses(k) ==
  {[isNull |-> FALSE, rows |-> rows, error |-> FALSE] : rows \in VectorRowLists(k)}
    \cup {[isNull |-> TRUE, rows |-> <<>>, error |-> TRUE],
          [isNull |-> TRUE, rows |-> <<>>, error |-> FALSE]}

KeywordResponses(k) ==
  {[isNull |-> FALSE, rows |-> rows, error |-> FALSE] : rows \in KeywordRowLists(k)}
    \cup {[isNull |-> TRUE, rows |-> <<>>, error |-> TRUE]}

NoResponse == [isNull |-> TRUE, rows |-> <<>>, error |-> FALSE]

VARIABLES
  text,         \* chunkText's argument
  argc,         \* the number of arguments the caller passed (1 or 3)
  chunkSize,
  overlap,
  cleanText,
  startIndex,
  chunkIndex,
  chunks,       \* sequence of [content, index]
  ranges,       \* history: [start, end, emitted] of every loop iteration
  iter,         \* number of loop iterations made
  cpc,          \* "idle" | "call" | "loop" | "done"
  texts,        \* generateEmbeddings' argument
  batches,
  batchI,       \* the loop index i of lines 56-78
  allEmbeddings,
  embResult,    \* pending, [kind "value", value] or [kind "error", message]
  embLog,       \* history: the service calls, their outcomes and the delays
  epc,          \* "idle" | "call" | "inflight" | "delay" | "done"
  query,        \* retrieveRelevantChunks' arguments
  topK,
  vectorResults,   \* the vector search's response
  keywords,
  keywordResults,
  retResult,    \* pending, [kind "value", value] or [kind "error"]
  retLog,       \* history: the collaborator calls and their outcomes
  retArgc,      \* the number of arguments the caller passed (1 or 2)
  uniqueResults, \* the merged entries, in Map insertion order
  context,      \* the context block POST builds, a sequence of pieces
  ppc,          \* POST's position: "idle" | "retrieving" | "built"
  rpc,          \* "idle" | "call" | "embedding" | "vector" | "keyword" | "done"
  storedFile,   \* upload: the file is in the storage bucket
  extractedText, \* upload: the text extracted from the file
  documentRow,  \* upload: the request's row is in the documents table
  postDocument, \* upload: POST holds the row the documents insert returned
  docChunks,    \* upload: what chunkText returned
  chunksToInsert, \* upload: the rows built from the chunks and the embeddings
  chunkRows,    \* upload: the request's rows in the document_chunks table
  upResponse,   \* upload: the HTTP response, or Pending
  upc,          \* upload: "idle" | "store" | "extract" | "extractCleanup"
                \* | "insertDoc" | "embed" | "insertChunks" | "docCleanup"
                \* | "fileCleanup" | "done"
  documentId,   \* DELETE d: "none" | "document" | "other"
  delDocument,  \* DELETE d: the select returned the documents row
  delResponse,  \* DELETE d: the HTTP response, or Pending
  dpc           \* DELETE d: "idle" | "select" | "chunkDelete" | "remove"
                \* | "docDelete" | "done"

chunkVars == <<text, argc, chunkSize, overlap, cleanText, startIndex, chunkIndex,
               chunks, ranges, iter, cpc>>

embedVars == <<texts, batches, batchI, allEmbeddings, embResult, embLog, epc>>

retrVars == <<query, topK, vectorResults, keywords, keywordResults, retResult,
              retLog, retArgc, uniqueResults, context, ppc, rpc>>

deleteVars == <<documentId, delDocument, delResponse, dpc>>

uploadVars == <<storedFile, extractedText, documentRow, postDocument, docChunks,
                chunksToInsert, chunkRows, upResponse, upc, deleteVars>>

vars == <<chunkVars, embedVars, retrVars, uploadVars>>

\* The places for the DELETE requests that are in flight at one time.
Deletes == 1..MaxDeletes

DeleteIdle ==
  /\ documentId = [d \in Deletes |-> "none"]
  /\ delDocument = [d \in Deletes |-> FALSE]
  /\ delResponse = [d \in Deletes |-> Pending]
  /\ dpc = [d \in Deletes |-> "idle"]

UploadIdle ==
  /\ storedFile = FALSE /\ extractedText = <<>> /\ documentRow = FALSE
  /\ postDocument = FALSE
  /\ docChunks = <<>> /\ chunksToInsert = <<>> /\ chunkRows = <<>>
  /\ upResponse = Pending /\ upc = "idle"
  /\ DeleteIdle

RetrIdle ==
  /\ query = <<>> /\ topK = 0 /\ vectorResults = NoResponse /\ keywords = <<>>
  /\ keywordResults = <<>> /\ retResult = Pending /\ retLog = <<>> /\ rpc = "idle"
  /\ retArgc = 0 /\ uniqueResults = <<>> /\ context = <<>> /\ ppc = "idle"

ChunkIdle ==
  /\ text = <<>> /\ argc = 0 /\ chunkSize = 0 /\ overlap = 0 /\ cleanText = <<>>
  /\ startIndex = 0 /\ chunkIndex = 0 /\ chunks = <<>> /\ ranges = <<>>
  /\ iter = 0 /\ cpc = "idle"

EmbedIdle ==
  /\ texts = <<>> /\ batches = <<>> /\ batchI = 0 /\ allEmbeddings = <<>>
  /\ embResult = Pending /\ embLog = <<>> /\ epc = "idle"

ChunkInit ==
  /\ \/ /\ text \in SeqsUpTo(Alphabet, MaxLen)
        /\ argc = 3
        /\ chunkSize \in 0..MaxChunk
        /\ overlap \in 0..MaxOverlap
     \/ /\ text \in SeqsUpTo(Alphabet, MaxLen) \cup {HelloWorldText}
        /\ argc = 1
        /\ chunkSize = ChunkSizeOrDefault(1, 0)
        /\ overlap = OverlapOrDefault(1, 0)
     \/ \E call \in ScenarioCalls :
          /\ text = call[1]
          /\ argc = 3
          /\ chunkSize = ChunkSizeOrDefault(3, call[2])
          /\ overlap = OverlapOrDefault(3, call[3])
  /\ cleanText = <<>>
  /\ startIndex = 0
  /\ chunkIndex = 0
  /\ chunks = <<>>
  /\ ranges = <<>>
  /\ iter = 0
  /\ cpc = "call"
  /\ EmbedIdle
  /\ RetrIdle
  /\ UploadIdle

\* Lines 23-33: normalise, return at once on an empty text.
ChunkBegin ==
  /\ cpc = "call"
  /\ cleanText' = CleanText(text)
  /\ cpc' = IF Len(CleanText(text)) = 0 THEN "done" ELSE "loop"
  /\ UNCHANGED <<text, argc, chunkSize, overlap, startIndex, chunkIndex, chunks,
                 ranges, iter>>
  /\ UNCHANGED <<embedVars, retrVars, uploadVars>>

\* Lines 35-82: one iteration of the while loop.
ChunkIter ==
  /\ cpc = "loop"
  /\ startIndex < Len(cleanText)
  /\ iter < MaxIter
  /\ LET endIdx == EndIndex(cleanText, startIndex, chunkSize)
         content == Trim(Slice(cleanText, startIndex, endIdx))
         emit == Len(content) > 0
         next == NextStart(endIdx, startIndex, overlap)
     IN  /\ chunks' = IF emit
                      THEN Append(chunks, [content |-> content, index |-> chunkIndex])
                      ELSE chunks
         /\ chunkIndex' = IF emit THEN chunkIndex + 1 ELSE chunkIndex
         /\ ranges' = Append(ranges, [start |-> startIndex, end |-> endIdx,
                                      emitted |-> emit])
         /\ startIndex' = next
         /\ cpc' = IF next >= Len(cleanText) THEN "done" ELSE "loop"
  /\ iter' = iter + 1
  /\ UNCHANGED <<text, argc, chunkSize, overlap, cleanText>>
  /\ UNCHANGED <<embedVars, retrVars, uploadVars>>

ChunkNext == ChunkBegin \/ ChunkIter

SpecChunk == ChunkInit /\ [][ChunkNext]_vars

(***************************************************************************)
(* POST /api/upload as a process: one action per await point.  A call to   *)
(* the storage or the database resolves without an error, resolves with an *)
(* error, or rejects.                                                      *)
(***************************************************************************)
\* Lines 6-56: the request is received.  Without a file it is answered 400
\* (lines 12-17); when reading the form or the file rejects, the catch block
\* answers 500 (lines 8, 22, 172-182); otherwise the storage upload is issued.
UploadInit ==
  /\ \/ upc = "store" /\ upResponse = Pending
     \/ upc = "done" /\ upResponse = ErrorResponse(400, "nofile")
     \/ upc = "done" /\ upResponse = CaughtResponse("request")
  /\ storedFile = FALSE
  /\ extractedText = <<>>
  /\ documentRow = FALSE
  /\ postDocument = FALSE
  /\ docChunks = <<>>
  /\ chunksToInsert = <<>>
  /\ chunkRows = <<>>
  /\ DeleteIdle
  /\ ChunkIdle
  /\ EmbedIdle
  /\ RetrIdle

\* Lines 51-78: the storage upload succeeds; text extraction starts.
UploadStored ==
  /\ upc = "store"
  /\ storedFile' = TRUE
  /\ upc' = "extract"
  /\ UNCHANGED <<extractedText, documentRow, docChunks, chunksToInsert, chunkRows,
                 upResponse,
                 postDocument>>
  /\ UNCHANGED <<chunkVars, embedVars, retrVars, deleteVars>>

\* Lines 58-64: the storage upload reports an error.
UploadStoreFails ==
  /\ upc = "store"
  /\ upResponse' = ErrorResponse(500, "store")
  /\ upc' = "done"
  /\ UNCHANGED <<storedFile, extractedText, documentRow, docChunks, chunksToInsert,
                 chunkRows,
                 postDocument>>
  /\ UNCHANGED <<chunkVars, embedVars, retrVars, deleteVars>>

\* Lines 70-111: the text is extracted and the documents insert is issued.
UploadExtracted(t) ==
  /\ upc = "extract"
  /\ extractedText' = t
  /\ upc' = "insertDoc"
  /\ UNCHANGED <<storedFile, documentRow, docChunks, chunksToInsert, chunkRows,
                 upResponse,
                 postDocument>>
  /\ UNCHANGED <<chunkVars, embedVars, retrVars, deleteVars>>

\* Lines 80-89: extraction throws; the removal of the stored file is issued.
UploadExtractThrows ==
  /\ upc = "extract"
  /\ upc' = "extractCleanup"
  /\ UNCHANGED <<storedFile, extractedText, documentRow, docChunks, chunksToInsert,
                 chunkRows, upResponse,
                 postDocument>>
  /\ UNCHANGED <<chunkVars, embedVars, retrVars, deleteVars>>

\* Lines 89-93: the removal resolves, with the file removed (ok) or with an
\* error that the handler does not read; the extraction error is answered.
UploadExtractCleanedUp(ok) ==
  /\ upc = "extractCleanup"
  /\ storedFile' = IF ok THEN FALSE ELSE storedFile
  /\ upResponse' = ErrorResponse(500, "extract")
  /\ upc' = "done"
  /\ UNCHANGED <<extractedText, documentRow, docChunks, chunksToInsert, chunkRows,
                 postDocument>>
  /\ UNCHANGED <<chunkVars, embedVars, retrVars, deleteVars>>

\* Lines 113-119: the documents insert reports an error.
UploadDocInsertFails ==
  /\ upc = "insertDoc"
  /\ upResponse' = ErrorResponse(500, "insertDoc")
  /\ upc' = "done"
  /\ UNCHANGED <<storedFile, extractedText, documentRow, docChunks, chunksToInsert,
                 chunkRows,
                 postDocument>>
  /\ UNCHANGED <<chunkVars, embedVars, retrVars, deleteVars>>

\* Lines 120-136: the documents row is inserted; the text is chunked; with no
\* chunk the request ends with 400, otherwise generateEmbeddings is called.
UploadDocInserted ==
  /\ upc = "insertDoc"
  /\ documentRow' = TRUE
  /\ postDocument' = TRUE
  /\ docChunks' = ChunkTextOf(extractedText)
  /\ IF Len(ChunkTextOf(extractedText)) = 0
     THEN /\ upResponse' = ErrorResponse(400, "chunk")
          /\ upc' = "done"
     ELSE /\ upResponse' = upResponse
          /\ upc' = "embed"
  /\ UNCHANGED <<storedFile, extractedText, chunksToInsert, chunkRows>>
  /\ UNCHANGED <<chunkVars, embedVars, retrVars, deleteVars>>

\* Lines 136-150: generateEmbeddings returns; the rows are built and the
\* document_chunks insert is issued.
UploadEmbedded ==
  /\ upc = "embed"
  /\ chunksToInsert' = RowsToInsert(docChunks, GenerateEmbeddingsOf(ContentsOf(docChunks)))
  /\ upc' = "insertChunks"
  /\ UNCHANGED <<storedFile, extractedText, documentRow, docChunks, chunkRows,
                 upResponse,
                 postDocument>>
  /\ UNCHANGED <<chunkVars, embedVars, retrVars, deleteVars>>

\* Lines 136 and 172-182: generateEmbeddings throws; the catch block answers.
UploadEmbedThrows ==
  /\ upc = "embed"
  /\ upResponse' = CaughtResponse("embed")
  /\ upc' = "done"
  /\ UNCHANGED <<storedFile, extractedText, documentRow, docChunks, chunksToInsert,
                 chunkRows,
                 postDocument>>
  /\ UNCHANGED <<chunkVars, embedVars, retrVars, deleteVars>>

\* Lines 148-171: the document_chunks insert succeeds, which takes the
\* documents row the rows refer to (src/unnamed/part_000 line 19).
UploadChunksInserted ==
  /\ upc = "insertChunks"
  /\ documentRow
  /\ chunkRows' = chunksToInsert
  /\ upResponse' = SuccessResponse(Len(docChunks))
  /\ upc' = "done"
  /\ UNCHANGED <<storedFile, extractedText, documentRow, docChunks, chunksToInsert,
                 postDocument>>
  /\ UNCHANGED <<chunkVars, embedVars, retrVars, deleteVars>>

\* Lines 152-155: the document_chunks insert reports an error; the delete of
\* the documents row is issued.
UploadChunksInsertFails ==
  /\ upc = "insertChunks"
  /\ upc' = "docCleanup"
  /\ UNCHANGED <<storedFile, extractedText, documentRow, docChunks, chunksToInsert,
                 chunkRows, upResponse,
                 postDocument>>
  /\ UNCHANGED <<chunkVars, embedVars, retrVars, deleteVars>>

\* Lines 155-156: the delete resolves, with the row and the chunk rows that
\* refer to it deleted (ok) or with an error that the handler does not read;
\* the removal of the file is issued.
UploadDocCleanedUp(ok) ==
  /\ upc = "docCleanup"
  /\ documentRow' = IF ok THEN FALSE ELSE documentRow
  /\ chunkRows' = IF ok THEN <<>> ELSE chunkRows
  /\ upc' = "fileCleanup"
  /\ UNCHANGED <<storedFile, extractedText, docChunks, chunksToInsert, upResponse,
                 postDocument>>
  /\ UNCHANGED <<chunkVars, embedVars, retrVars, deleteVars>>

\* Lines 156-160: the removal resolves, with the file removed (ok) or with an
\* error that the handler does not read; the insert error is answered.
UploadFileCleanedUp(ok) ==
  /\ upc = "fileCleanup"
  /\ storedFile' = IF ok THEN FALSE ELSE storedFile
  /\ upResponse' = ErrorResponse(500, "insertChunks")
  /\ upc' = "done"
  /\ UNCHANGED <<extractedText, documentRow, docChunks, chunksToInsert, chunkRows,
                 postDocument>>
  /\ UNCHANGED <<chunkVars, embedVars, retrVars, deleteVars>>

\* Lines 51, 89, 98, 148, 155, 156: the awaited calls to the storage and the
\* database, by the position that waits for them.
UploadCollaboratorAwaits ==
  {"store", "extractCleanup", "insertDoc", "insertChunks", "docCleanup",
   "fileCleanup"}

\* Lines 172-182: an awaited call rejects; the catch block answers 500 and
\* the file and the rows stay as they are.
UploadCollaboratorRejects ==
  /\ upc \in UploadCollaboratorAwaits
  /\ upResponse' = CaughtResponse(upc)
  /\ upc' = "done"
  /\ UNCHANGED <<storedFile, extractedText, documentRow, docChunks, chunksToInsert,
                 chunkRows,
                 postDocument>>
  /\ UNCHANGED <<chunkVars, embedVars, retrVars, deleteVars>>

(***************************************************************************)
(* DELETE /api/upload as processes that run between the steps of POST and  *)
(* of each other: one action per await point of request d.  The documentId *)
(* of a request is absent ("none"), the id of the row POST inserted        *)
(* ("document"), or an id of no row ("other").                             *)
(***************************************************************************)
DocumentIds == {"none", "document", "other"}

\* The requests that are being handled.
InFlight(d) == dpc[d] \notin {"idle", "done"}

\* Lines 250-267: a request is received and takes the first place that no
\* request in flight holds; without a documentId it is answered 400,
\* otherwise the select of the documents row is issued.  The id of the row
\* is known once POST holds it.
DeleteCalled(d, id) ==
  /\ ~InFlight(d)
  /\ \A e \in 1..(d - 1) : InFlight(e)
  /\ id = "document" => postDocument
  /\ documentId' = [documentId EXCEPT ![d] = id]
  /\ delDocument' = [delDocument EXCEPT ![d] = FALSE]
  /\ IF id # "none"
     THEN /\ dpc' = [dpc EXCEPT ![d] = "select"]
          /\ delResponse' = [delResponse EXCEPT ![d] = Pending]
     ELSE /\ dpc' = [dpc EXCEPT ![d] = "done"]
          /\ delResponse' = [delResponse EXCEPT ![d] = ErrorResponse(400, "noid")]
  /\ UNCHANGED <<storedFile, extractedText, documentRow, docChunks, chunksToInsert,
                 chunkRows, upResponse, upc, postDocument>>
  /\ UNCHANGED <<chunkVars, embedVars, retrVars>>

\* Lines 263-273: the select resolves, with the row when the id names one
\* and the select worked (ok), and otherwise with no data; the delete of the
\* chunk rows is issued.
DeleteSelected(d, ok) ==
  /\ dpc[d] = "select"
  /\ delDocument' =
       [delDocument EXCEPT ![d] = (ok /\ documentId[d] = "document" /\ documentRow)]
  /\ dpc' = [dpc EXCEPT ![d] = "chunkDelete"]
  /\ UNCHANGED <<storedFile, extractedText, documentRow, docChunks, chunksToInsert,
                 chunkRows, upResponse, upc, postDocument, documentId, delResponse>>
  /\ UNCHANGED <<chunkVars, embedVars, retrVars>>

\* Lines 270-286: the delete of the chunk rows resolves, with the rows of
\* the document deleted (ok) or with an error that the handler does not
\* read; the removal of the file is issued when the select returned the row,
\* and otherwise the delete of the documents row.
DeleteChunksDeleted(d, ok) ==
  /\ dpc[d] = "chunkDelete"
  /\ chunkRows' = IF ok /\ documentId[d] = "document" THEN <<>> ELSE chunkRows
  /\ dpc' = [dpc EXCEPT ![d] = IF delDocument[d] THEN "remove" ELSE "docDelete"]
  /\ UNCHANGED <<storedFile, extractedText, documentRow, docChunks, chunksToInsert,
                 upResponse, upc, postDocument, documentId, delDocument, delResponse>>
  /\ UNCHANGED <<chunkVars, embedVars, retrVars>>

\* Lines 276-286: the removal of the file resolves, with the file removed
\* (ok) or with an error that the handler does not read; the delete of the
\* documents row is issued.
DeleteFileRemoved(d, ok) ==
  /\ dpc[d] = "remove"
  /\ storedFile' = IF ok THEN FALSE ELSE storedFile
  /\ dpc' = [dpc EXCEPT ![d] = "docDelete"]
  /\ UNCHANGED <<extractedText, documentRow, docChunks, chunksToInsert, chunkRows,
                 upResponse, upc, postDocument, documentId, delDocument, delResponse>>
  /\ UNCHANGED <<chunkVars, embedVars, retrVars>>

\* Lines 283-296: the delete of the documents row succeeds; the chunk rows
\* that are left go with the row (ON DELETE CASCADE, src/unnamed/part_000
\* line 19).
DeleteDocDeleted(d) ==
  /\ dpc[d] = "docDelete"
  /\ documentRow' = IF documentId[d] = "document" THEN FALSE ELSE documentRow
  /\ chunkRows' = IF documentId[d] = "document" THEN <<>> ELSE chunkRows
  /\ delResponse' = [delResponse EXCEPT ![d] = [kind |-> "success", status |-> 200]]
  /\ dpc' = [dpc EXCEPT ![d] = "done"]
  /\ UNCHANGED <<storedFile, extractedText, docChunks, chunksToInsert,
                 upResponse, upc, postDocument, documentId, delDocument>>
  /\ UNCHANGED <<chunkVars, embedVars, retrVars>>

\* Lines 288-294: the delete of the documents row reports an error.
DeleteDocDeleteFails(d) ==
  /\ dpc[d] = "docDelete"
  /\ delResponse' = [delResponse EXCEPT ![d] = ErrorResponse(500, "docDelete")]
  /\ dpc' = [dpc EXCEPT ![d] = "done"]
  /\ UNCHANGED <<storedFile, extractedText, documentRow, docChunks, chunksToInsert,
                 chunkRows, upResponse, upc, postDocument, documentId, delDocument>>
  /\ UNCHANGED <<chunkVars, embedVars, retrVars>>

\* Lines 297-303: an awaited call rejects; the catch block answers 500.
DeleteCollaboratorRejects(d) ==
  /\ InFlight(d)
  /\ delResponse' = [delResponse EXCEPT ![d] = CaughtResponse(dpc[d])]
  /\ dpc' = [dpc EXCEPT ![d] = "done"]
  /\ UNCHANGED <<storedFile, extractedText, documentRow, docChunks, chunksToInsert,
                 chunkRows, upResponse, upc, postDocument, documentId, delDocument>>
  /\ UNCHANGED <<chunkVars, embedVars, retrVars>>

UploadNext ==
  \/ UploadStored
  \/ UploadStoreFails
  \/ upc = "extract" /\ \E t \in ExtractedTexts : UploadExtracted(t)
  \/ UploadExtractThrows
  \/ \E ok \in BOOLEAN : UploadExtractCleanedUp(ok)
  \/ UploadDocInsertFails
  \/ UploadDocInserted
  \/ UploadEmbedded
  \/ UploadEmbedThrows
  \/ UploadChunksInserted
  \/ UploadChunksInsertFails
  \/ \E ok \in BOOLEAN : UploadDocCleanedUp(ok)
  \/ \E ok \in BOOLEAN : UploadFileCleanedUp(ok)
  \/ UploadCollaboratorRejects
  \/ \E d \in Deletes, id \in DocumentIds : DeleteCalled(d, id)
  \/ \E d \in Deletes, ok \in BOOLEAN : DeleteSelected(d, ok)
  \/ \E d \in Deletes, ok \in BOOLEAN : DeleteChunksDeleted(d, ok)
  \/ \E d \in Deletes, ok \in BOOLEAN : DeleteFileRemoved(d, ok)
  \/ \E d \in Deletes : DeleteDocDeleted(d)
  \/ \E d \in Deletes : DeleteDocDeleteFails(d)
  \/ \E d \in Deletes : DeleteCollaboratorRejects(d)

SpecUpload == UploadInit /\ [][UploadNext]_vars

(***************************************************************************)
(* The chunkText of src/unnamed/part_001 as a process, on the same state.  *)
(***************************************************************************)
OlderChunkInit ==
  /\ \/ /\ text \in SeqsUpTo(Alphabet, MaxLen)
        /\ chunkSize \in 0..MaxChunk
        /\ overlap \in 0..MaxOverlap
     \/ \E call \in ScenarioCalls :
          /\ text = call[1]
          /\ chunkSize = call[2]
          /\ overlap = call[3]
  /\ argc = 3
  /\ cleanText = <<>>
  /\ startIndex = 0
  /\ chunkIndex = 0
  /\ chunks = <<>>
  /\ ranges = <<>>
  /\ iter = 0
  /\ cpc = "call"
  /\ EmbedIdle
  /\ RetrIdle
  /\ UploadIdle

\* part_001 lines 11-21: normalise, return at once on an empty text.
OlderChunkBegin ==
  /\ cpc = "call"
  /\ cleanText' = CleanText(text)
  /\ cpc' = IF Len(CleanText(text)) = 0 THEN "done" ELSE "loop"
  /\ UNCHANGED <<text, argc, chunkSize, overlap, startIndex, chunkIndex, chunks,
                 ranges, iter>>
  /\ UNCHANGED <<embedVars, retrVars, uploadVars>>

\* part_001 lines 23-64: one iteration of the while loop.
OlderChunkIter ==
  /\ cpc = "loop"
  /\ startIndex < Len(cleanText)
  /\ iter < MaxIter
  /\ LET endIdx == OlderEndIndex(cleanText, startIndex, chunkSize)
         content == Trim(Slice(cleanText, startIndex, endIdx))
         emit == Len(content) > 0
         pushed == IF emit
                   THEN Append(chunks, [content |-> content, index |-> chunkIndex])
                   ELSE chunks
         next == OlderNextStart(endIdx, overlap, pushed)
     IN  /\ chunks' = pushed
         /\ chunkIndex' = IF emit THEN chunkIndex + 1 ELSE chunkIndex
         /\ ranges' = Append(ranges, [start |-> startIndex, end |-> endIdx,
                                      emitted |-> emit])
         /\ startIndex' = next
         /\ cpc' = IF next >= Len(cleanText) THEN "done" ELSE "loop"
  /\ iter' = iter + 1
  /\ UNCHANGED <<text, argc, chunkSize, overlap, cleanText>>
  /\ UNCHANGED <<embedVars, retrVars, uploadVars>>

OlderChunkNext == OlderChunkBegin \/ OlderChunkIter

SpecOlderChunk == OlderChunkInit /\ [][OlderChunkNext]_vars

(***************************************************************************)
(* generateEmbeddings as a process: one action per await point.            *)
(***************************************************************************)
EmbedInit ==
  /\ texts \in SeqsUpTo(Texts, MaxTexts)
  /\ batches = <<>>
  /\ batchI = 0
  /\ allEmbeddings = <<>>
  /\ embResult = Pending
  /\ embLog = <<>>
  /\ epc = "call"
  /\ ChunkIdle
  /\ RetrIdle
  /\ UploadIdle

\* Lines 28-65: plan the batches, then issue the call for batch 0; with no
\* batch the loop body never runs and the empty list is returned.
EmbedCall ==
  /\ epc = "call"
  /\ batches' = PlanBatches(texts)
  /\ batchI' = 0
  /\ IF Len(PlanBatches(texts)) = 0
     THEN /\ epc' = "done"
          /\ embResult' = [kind |-> "value", value |-> allEmbeddings]
          /\ embLog' = embLog
     ELSE /\ epc' = "inflight"
          /\ embResult' = embResult
          /\ embLog' = Append(embLog, [ev |-> "call", batch |-> 0])
  /\ UNCHANGED <<texts, allEmbeddings>>
  /\ UNCHANGED <<chunkVars, retrVars, uploadVars>>

\* A variant of EmbedResponse that issues the next call without a delay.
EmbedResponseNoDelay ==
  /\ epc = "inflight"
  /\ LET all == PushAll(allEmbeddings, ServiceResponse(batches[batchI + 1]))
     IN  /\ allEmbeddings' = all
         /\ batchI' = batchI + 1
         /\ IF batchI < Len(batches) - 1
            THEN /\ epc' = "inflight"
                 /\ embResult' = embResult
                 /\ embLog' = embLog \o <<[ev |-> "response", batch |-> batchI],
                                          [ev |-> "call", batch |-> batchI + 1]>>
            ELSE /\ epc' = "done"
                 /\ embResult' = [kind |-> "value", value |-> all]
                 /\ embLog' = Append(embLog, [ev |-> "response", batch |-> batchI])
  /\ UNCHANGED <<texts, batches>>
  /\ UNCHANGED <<chunkVars, retrVars, uploadVars>>

\* Lines 67-73 and 80: the call for batch i resolves.
EmbedResponse ==
  /\ epc = "inflight"
  /\ LET all == PushAll(allEmbeddings, ServiceResponse(batches[batchI + 1]))
     IN  /\ allEmbeddings' = all
         /\ IF batchI < Len(batches) - 1
            THEN /\ epc' = "delay"
                 /\ batchI' = batchI
                 /\ embResult' = embResult
                 /\ embLog' = embLog \o <<[ev |-> "response", batch |-> batchI],
                                          [ev |-> "delay", batch |-> batchI]>>
            ELSE /\ epc' = "done"
                 /\ batchI' = batchI + 1
                 /\ embResult' = [kind |-> "value", value |-> all]
                 /\ embLog' = Append(embLog, [ev |-> "response", batch |-> batchI])
  /\ UNCHANGED <<texts, batches>>
  /\ UNCHANGED <<chunkVars, retrVars, uploadVars>>

\* A variant of EmbedFailure that logs the error and goes on to the next batch.
EmbedFailureSkipsBatch(upstream) ==
  /\ epc = "inflight"
  /\ IF batchI < Len(batches) - 1
     THEN /\ epc' = "inflight"
          /\ batchI' = batchI + 1
          /\ embResult' = embResult
          /\ embLog' = embLog \o <<[ev |-> "error", batch |-> batchI,
                                    upstream |-> upstream],
                                   [ev |-> "call", batch |-> batchI + 1]>>
     ELSE /\ epc' = "done"
          /\ batchI' = batchI + 1
          /\ embResult' = [kind |-> "value", value |-> allEmbeddings]
          /\ embLog' = Append(embLog, [ev |-> "error", batch |-> batchI,
                                       upstream |-> upstream])
  /\ UNCHANGED <<texts, batches, allEmbeddings>>
  /\ UNCHANGED <<chunkVars, retrVars, uploadVars>>

\* Lines 74-77: the call for batch i rejects; the catch block rethrows.
EmbedFailure(upstream) ==
  /\ epc = "inflight"
  /\ epc' = "done"
  /\ embResult' = [kind |-> "error", message |-> FailureMessage(batchI, upstream)]
  /\ embLog' = Append(embLog, [ev |-> "error", batch |-> batchI,
                               upstream |-> upstream])
  /\ UNCHANGED <<texts, batches, batchI, allEmbeddings>>
  /\ UNCHANGED <<chunkVars, retrVars, uploadVars>>

\* Lines 72, 56, 62: the 100 ms timer fires, i++ and the next call is issued.
EmbedDelayElapsed ==
  /\ epc = "delay"
  /\ batchI' = batchI + 1
  /\ epc' = "inflight"
  /\ embLog' = Append(embLog, [ev |-> "call", batch |-> batchI + 1])
  /\ UNCHANGED <<texts, batches, allEmbeddings, embResult>>
  /\ UNCHANGED <<chunkVars, retrVars, uploadVars>>

EmbedNext ==
  \/ EmbedCall
  \/ EmbedResponse
  \/ \E upstream \in UpstreamErrors : EmbedFailure(upstream)
  \/ EmbedDelayElapsed

SpecEmbed == EmbedInit /\ [][EmbedNext]_vars

(***************************************************************************)
(* retrieveRelevantChunks as a process: one action per await point.        *)
(***************************************************************************)
RetrieveInit ==
  /\ query \in Queries
  /\ \/ /\ retArgc = 2
        /\ topK \in 0..MaxTopK
        /\ ppc = "idle"
     \/ /\ retArgc = 1
        /\ topK = TopKOrDefault(1, 0)
        /\ ppc = "retrieving"
  /\ uniqueResults = <<>>
  /\ context = <<>>
  /\ vectorResults = NoResponse
  /\ keywords = <<>>
  /\ keywordResults = <<>>
  /\ retResult = Pending
  /\ retLog = <<>>
  /\ rpc = "call"
  /\ ChunkIdle
  /\ EmbedIdle
  /\ UploadIdle

\* Line 11: generateEmbedding(query) is called.
RetrieveCall ==
  /\ rpc = "call"
  /\ rpc' = "embedding"
  /\ retLog' = Append(retLog, [ev |-> "embed-call"])
  /\ UNCHANGED <<query, topK, vectorResults, keywords, keywordResults, retResult>>
  /\ UNCHANGED <<retArgc, uniqueResults, context, ppc>>
  /\ UNCHANGED <<chunkVars, embedVars, uploadVars>>

\* Lines 11-18: the query embedding arrives and the vector search is issued.
RetrieveEmbedded ==
  /\ rpc = "embedding"
  /\ rpc' = "vector"
  /\ retLog' = Append(retLog, [ev |-> "vector-call", count |-> topK])
  /\ UNCHANGED <<query, topK, vectorResults, keywords, keywordResults, retResult>>
  /\ UNCHANGED <<retArgc, uniqueResults, context, ppc>>
  /\ UNCHANGED <<chunkVars, embedVars, uploadVars>>

\* A variant of RetrieveEmbeddingThrows without the outer catch.
RetrieveEmbeddingEscapes ==
  /\ rpc = "embedding"
  /\ rpc' = "done"
  /\ retResult' = [kind |-> "error"]
  /\ retLog' = Append(retLog, [ev |-> "embed-throw"])
  /\ UNCHANGED <<query, topK, vectorResults, keywords, keywordResults>>
  /\ UNCHANGED <<retArgc, uniqueResults, context, ppc>>
  /\ UNCHANGED <<chunkVars, embedVars, uploadVars>>

\* Lines 76-79: generateEmbedding throws; the outer catch returns [].
RetrieveEmbeddingThrows ==
  /\ rpc = "embedding"
  /\ rpc' = "done"
  /\ retResult' = [kind |-> "value", value |-> <<>>]
  /\ retLog' = Append(retLog, [ev |-> "embed-throw"])
  /\ UNCHANGED <<query, topK, vectorResults, keywords, keywordResults>>
  /\ UNCHANGED <<retArgc, uniqueResults, context, ppc>>
  /\ UNCHANGED <<chunkVars, embedVars, uploadVars>>

\* A variant of RetrieveVectorReturns that returns [] on a vector-search error.
RetrieveVectorReturnsOrGivesUp(resp) ==
  /\ rpc = "vector"
  /\ vectorResults' = resp
  /\ keywords' = Keywords(query)
  /\ IF ~resp.error /\ IsSparse(resp) /\ Len(KeywordConditions(Keywords(query))) > 0
     THEN /\ rpc' = "keyword"
          /\ retLog' = retLog \o <<[ev |-> "vector-return"],
                                   [ev |-> "keyword-call", keywords |-> Keywords(query),
                                    limit |-> topK]>>
          /\ UNCHANGED <<keywordResults, retResult, uniqueResults>>
     ELSE /\ rpc' = "done"
          /\ retLog' = Append(retLog, [ev |-> "vector-return"])
          /\ keywordResults' = <<>>
          /\ uniqueResults' = IF resp.error THEN <<>>
                              ELSE MergeResults(OrEmpty(resp), <<>>)
          /\ retResult' = [kind |-> "value",
                           value |-> IF resp.error THEN <<>>
                                     ELSE FinalResults(OrEmpty(resp), <<>>, topK)]
  /\ UNCHANGED <<query, topK>>
  /\ UNCHANGED <<retArgc, context, ppc>>
  /\ UNCHANGED <<chunkVars, embedVars, uploadVars>>

\* Lines 14-43 and 57-75: the vector search responds; the keywords are
\* derived; the keyword search is issued when the vector rows are sparse and
\* there is a condition, and otherwise the rows are merged and returned.
RetrieveVectorReturns(resp) ==
  /\ rpc = "vector"
  /\ vectorResults' = resp
  /\ keywords' = Keywords(query)
  /\ IF IsSparse(resp) /\ Len(KeywordConditions(Keywords(query))) > 0
     THEN /\ rpc' = "keyword"
          /\ retLog' = retLog \o <<[ev |-> "vector-return"],
                                   [ev |-> "keyword-call", keywords |-> Keywords(query),
                                    limit |-> topK]>>
          /\ UNCHANGED <<keywordResults, retResult, uniqueResults>>
     ELSE /\ rpc' = "done"
          /\ retLog' = Append(retLog, [ev |-> "vector-return"])
          /\ keywordResults' = <<>>
          /\ uniqueResults' = MergeResults(OrEmpty(resp), <<>>)
          /\ retResult' = [kind |-> "value",
                           value |-> FinalResults(OrEmpty(resp), <<>>, topK)]
  /\ UNCHANGED <<query, topK>>
  /\ UNCHANGED <<retArgc, context, ppc>>
  /\ UNCHANGED <<chunkVars, embedVars, uploadVars>>

\* Lines 76-79: the vector search call throws; the outer catch returns [].
RetrieveVectorThrows ==
  /\ rpc = "vector"
  /\ rpc' = "done"
  /\ retResult' = [kind |-> "value", value |-> <<>>]
  /\ retLog' = Append(retLog, [ev |-> "vector-throw"])
  /\ UNCHANGED <<query, topK, vectorResults, keywords, keywordResults>>
  /\ UNCHANGED <<retArgc, uniqueResults, context, ppc>>
  /\ UNCHANGED <<chunkVars, embedVars, uploadVars>>

\* Lines 45-75: the keyword search responds; its rows get the default
\* similarity unless it reported an error; the rows are merged and returned.
RetrieveKeywordReturns(resp) ==
  /\ rpc = "keyword"
  /\ LET kw == IF ~resp.error /\ ~resp.isNull
               THEN WithDefaultSimilarity(resp.rows)
               ELSE <<>>
     IN  /\ keywordResults' = kw
         /\ uniqueResults' = MergeResults(OrEmpty(vectorResults), kw)
         /\ retResult' = [kind |-> "value",
                          value |-> FinalResults(OrEmpty(vectorResults), kw, topK)]
  /\ rpc' = "done"
  /\ retLog' = Append(retLog, [ev |-> "keyword-return", response |-> resp])
  /\ UNCHANGED <<query, topK, vectorResults, keywords>>
  /\ UNCHANGED <<retArgc, context, ppc>>
  /\ UNCHANGED <<chunkVars, embedVars, uploadVars>>

\* Lines 52-75: the keyword search throws; the inner catch logs it and the
\* vector rows alone are merged and returned.
RetrieveKeywordThrows ==
  /\ rpc = "keyword"
  /\ keywordResults' = <<>>
  /\ uniqueResults' = MergeResults(OrEmpty(vectorResults), <<>>)
  /\ retResult' = [kind |-> "value",
                   value |-> FinalResults(OrEmpty(vectorResults), <<>>, topK)]
  /\ rpc' = "done"
  /\ retLog' = Append(retLog, [ev |-> "keyword-throw"])
  /\ UNCHANGED <<query, topK, vectorResults, keywords>>
  /\ UNCHANGED <<retArgc, context, ppc>>
  /\ UNCHANGED <<chunkVars, embedVars, uploadVars>>

\* POST, lines 117-127: retrieveRelevantChunks(lastUserMessage) has returned
\* to the chat route, which builds the context block from the chunks.
ChatBuildContext ==
  /\ ppc = "retrieving"
  /\ rpc = "done"
  /\ retResult.kind = "value"
  /\ context' = BuildContext(retResult.value)
  /\ ppc' = "built"
  /\ UNCHANGED <<query, topK, vectorResults, keywords, keywordResults, retResult,
                 retLog, retArgc, uniqueResults, rpc>>
  /\ UNCHANGED <<chunkVars, embedVars, uploadVars>>

RetrieveNext ==
  \/ RetrieveCall
  \/ RetrieveEmbedded
  \/ RetrieveEmbeddingThrows
  \/ rpc = "vector" /\ \E resp \in VectorResponses(topK) : RetrieveVectorReturns(resp)
  \/ RetrieveVectorThrows
  \/ rpc = "keyword" /\ \E resp \in KeywordResponses(topK) : RetrieveKeywordReturns(resp)
  \/ RetrieveKeywordThrows
  \/ ChatBuildContext

SpecRetrieve == RetrieveInit /\ [][RetrieveNext]_vars

(***************************************************************************)
(* Claims about chunkText, checked under SpecChunk.                        *)
(***************************************************************************)
InRange(r, i) == r.start <= i /\ i < r.end

NonSpaceIndexes(s) == {i \in 0..(Len(s) - 1) : s[i + 1] # " "}

\* C1: for a non-empty normalized text, chunkSize >= 1 and overlap >= 0 the
\* [start, endIndex) ranges of the successive iterations cover the normalized
\* text with no gap: the first starts at 0, each next one starts at or before
\* the end of the previous one, the loop goes on until the last one reaches
\* the end of the text, and every non-space character lies in a range whose
\* chunk was emitted.
C1_RangesCoverText ==
  chunkSize >= 1 =>
    /\ ranges # <<>> => ranges[1].start = 0
    /\ \A k \in 2..Len(ranges) : ranges[k].start <= ranges[k - 1].end
    /\ (cpc = "loop" /\ ranges # <<>>) => startIndex <= ranges[Len(ranges)].end
    /\ cpc = "loop" => (startIndex < Len(cleanText) /\ iter < MaxIter)
    /\ (cpc = "done" /\ cleanText # <<>>) =>
          /\ ranges # <<>>
          /\ ranges[Len(ranges)].end >= Len(cleanText)
          /\ \A i \in NonSpaceIndexes(cleanText) :
                \E k \in 1..Len(ranges) : ranges[k].emitted /\ InRange(ranges[k], i)

\* C1 witness: a finished run of three or more iterations in which the overlap
\* pulled a start index back inside the previous range.
C1_Witness ==
  /\ cpc = "done"
  /\ chunkSize >= 1
  /\ overlap >= 1
  /\ Len(ranges) >= 3
  /\ \E k \in 2..Len(ranges) : ranges[k].start < ranges[k - 1].end

\* C2: chunkText terminates for every pair with overlap >= chunkSize,
\* chunkSize = 0 included: every loop iteration makes startIndex strictly larger.
C2_ForcedProgress ==
  [][(iter' = iter + 1 /\ overlap >= chunkSize) => startIndex' > startIndex]_vars

\* The part of C2 that the loop does guarantee: with overlap >= chunkSize >= 1
\* every iteration makes startIndex strictly larger.
ForcedProgressForPositiveChunkSize ==
  [][(iter' = iter + 1 /\ overlap >= chunkSize /\ chunkSize >= 1)
       => startIndex' > startIndex]_vars

(***************************************************************************)
(* Claims about generateEmbeddings, checked under SpecEmbed.               *)
(***************************************************************************)
RECURSIVE Flatten(_)
Flatten(bs) == IF bs = <<>> THEN <<>> ELSE Head(bs) \o Flatten(Tail(bs))

Planned == epc \in {"inflight", "delay", "done"}

CallsIn(log) == {j \in 1..Len(log) : log[j].ev = "call"}
ErrorsIn(log) == {j \in 1..Len(log) : log[j].ev = "error"}

\* C3: when every service call succeeded, generateEmbeddings returns exactly
\* one vector per input text and the vector at position i is the one the
\* service produced for texts[i], whatever the split into batches.
C3_OneVectorPerTextInOrder ==
  (epc = "done" /\ embResult.kind = "value") =>
    /\ Len(embResult.value) = Len(texts)
    /\ \A i \in 1..Len(texts) : embResult.value[i] = EmbeddingOf(texts[i])

\* C3 witness: a returned call of three different texts planned as two or
\* more batches.
C3_Witness ==
  /\ epc = "done"
  /\ embResult.kind = "value"
  /\ Len(batches) >= 2
  /\ Len(texts) >= 3
  /\ \A i, j \in 1..Len(texts) : i # j => texts[i] # texts[j]

\* C6: in the batch plan every batch is non-empty, a batch of two or more
\* texts has an estimated-token sum of at most 250000, a batch whose sum
\* exceeds 250000 holds exactly one text, the batches in order are the input
\* list (nothing dropped or split), and planning succeeds for every input.
C6_BatchPlanWithinCeiling ==
  /\ epc = "call" => ENABLED EmbedCall
  /\ Planned =>
       /\ \A b \in 1..Len(batches) :
            /\ Len(batches[b]) >= 1
            /\ Len(batches[b]) >= 2 => SumTokens(batches[b]) <= MAX_TOKENS_PER_BATCH
            /\ SumTokens(batches[b]) > MAX_TOKENS_PER_BATCH => Len(batches[b]) = 1
       /\ Flatten(batches) = texts

\* C6 witness: a plan that holds an oversized text alone in its batch next
\* to a batch of two texts.
C6_Witness ==
  /\ Planned
  /\ \E b \in 1..Len(batches) : SumTokens(batches[b]) > MAX_TOKENS_PER_BATCH
  /\ \E b \in 1..Len(batches) : Len(batches[b]) >= 2

\* C7: when the service call of a batch fails, generateEmbeddings stops at
\* once: the failed call is the last event (no call for a later batch), no
\* embeddings are returned, and the one error thrown names the failing batch
\* and carries the upstream message.
C7_FailureAbortsWithBatchError ==
  \A j \in ErrorsIn(embLog) :
    /\ j = Len(embLog)
    /\ epc = "done"
    /\ ~ENABLED EmbedNext
    /\ embResult.kind = "error"
    /\ embResult.message = FailureMessage(embLog[j].batch, embLog[j].upstream)
    /\ embResult.message[2] = embLog[j].batch + 1
    /\ embLog[j].upstream # "" => embResult.message[4] = embLog[j].upstream
    /\ Cardinality(CallsIn(embLog)) = embLog[j].batch + 1

\* C7 witness: the second of three batches failed after the first succeeded.
C7_Witness ==
  /\ embResult.kind = "error"
  /\ Len(batches) = 3
  /\ batchI = 1
  /\ Len(allEmbeddings) >= 1
  /\ embLog[Len(embLog)].ev = "error"
  /\ embLog[Len(embLog)].upstream = "rate limit exceeded"

(***************************************************************************)
(* Claims about retrieveRelevantChunks, checked under SpecRetrieve.        *)
(***************************************************************************)
Returned == rpc = "done" /\ retResult.kind = "value"

Logged(e) == \E j \in 1..Len(retLog) : retLog[j].ev = e

IdsOf(entries) == {entries[k].id : k \in 1..Len(entries)}

EntriesWithId(entries, id) == {k \in 1..Len(entries) : entries[k].id = id}

VectorRowOf(id) ==
  vectorResults.rows[CHOOSE k \in 1..Len(vectorResults.rows) :
                       vectorResults.rows[k].id = id]

\* The ids the vector search and the keyword search both returned.
InBothSets == IdsOf(OrEmpty(vectorResults)) \cap IdsOf(keywordResults)

\* C4: for topK > 0 and every combination of collaborator results the
\* returned list has at most topK entries, in non-increasing similarity order.
C4_AtMostTopKSortedDescending ==
  (Returned /\ topK > 0) =>
    /\ Len(retResult.value) <= topK
    /\ \A i, j \in 1..Len(retResult.value) :
         i < j => retResult.value[i].similarity >= retResult.value[j].similarity

\* C4 witness: the merge of vector and keyword rows held more than topK
\* distinct chunks, one of them a vector row below the keyword default.
C4_Witness ==
  /\ Returned
  /\ topK = 2
  /\ Cardinality(IdsOf(OrEmpty(vectorResults)) \cup IdsOf(keywordResults)) > topK
  /\ \E k \in 1..Len(vectorResults.rows) :
       vectorResults.rows[k].similarity < KEYWORD_SIMILARITY

\* C5 as stated: a chunk id in both the vector and the keyword result set is
\* returned exactly once, with the vector similarity value, for every vector
\* similarity above the 0.30 threshold.
C5_DuplicateKeepsVectorSimilarity ==
  Returned =>
    \A id \in InBothSets :
      /\ Cardinality(EntriesWithId(retResult.value, id)) = 1
      /\ \A k \in EntriesWithId(retResult.value, id) :
           retResult.value[k].similarity = VectorRowOf(id).similarity

\* C5 as amended: a chunk id in both result sets is returned exactly once,
\* with the higher of its vector similarity and the keyword default 0.5: the
\* vector row when its similarity is at least 0.5, the keyword row otherwise.
C5_DuplicateKeepsHigherSimilarity ==
  Returned =>
    \A id \in InBothSets :
      /\ Cardinality(EntriesWithId(retResult.value, id)) = 1
      /\ \A k \in EntriesWithId(retResult.value, id) :
           IF VectorRowOf(id).similarity >= KEYWORD_SIMILARITY
           THEN /\ retResult.value[k].similarity = VectorRowOf(id).similarity
                /\ retResult.value[k].via = "vector"
           ELSE /\ retResult.value[k].similarity = KEYWORD_SIMILARITY
                /\ retResult.value[k].via = "keyword"

\* C5 witness: two chunks in both sets, one with a vector similarity above
\* the keyword default and one with a vector similarity below it.
C5_Witness ==
  /\ Returned
  /\ \E id \in InBothSets : VectorRowOf(id).similarity > KEYWORD_SIMILARITY
  /\ \E id \in InBothSets : VectorRowOf(id).similarity < KEYWORD_SIMILARITY

\* C8: no failure inside retrieveRelevantChunks escapes as an exception; when
\* the query embedding call throws, the empty sequence is returned.
C8_NoExceptionEscapes ==
  /\ retResult.kind # "error"
  /\ (Logged("embed-throw") \/ Logged("vector-throw") \/ Logged("keyword-throw"))
       => Returned
  /\ Logged("embed-throw") => retResult.value = <<>>

\* C8 witness: the query embedding call threw.
C8_Witness == rpc = "done" /\ Logged("embed-throw") /\ ~Logged("vector-call")

KeywordCalled == Logged("keyword-call")

KeywordResponse ==
  retLog[CHOOSE j \in 1..Len(retLog) : retLog[j].ev = "keyword-return"].response

\* C9: a search collaborator's error is not fatal. After a vector-search error
\* the call goes on to the keyword step and returns what it would return had
\* the vector search found nothing: the keyword rows at the default
\* similarity. After a keyword-search error it returns what it would return
\* had the keyword search found nothing: the vector rows.
C9_SearchErrorsAreNotFatal ==
  /\ (rpc \in {"keyword", "done"} /\ vectorResults.error) =>
       /\ KeywordCalled <=> keywords # <<>>
       /\ rpc = "done" =>
            /\ retResult.kind = "value"
            /\ retResult.value =
                 IF Logged("keyword-return") /\ ~KeywordResponse.error
                 THEN [k \in 1..Len(KeywordResponse.rows) |->
                         [id |-> KeywordResponse.rows[k],
                          similarity |-> KEYWORD_SIMILARITY, via |-> "keyword"]]
                 ELSE <<>>
  /\ (rpc = "done" /\ Logged("keyword-return") /\ KeywordResponse.error) =>
       /\ retResult.kind = "value"
       /\ retResult.value = vectorResults.rows

\* C9 witness: the vector search reported an error and the keyword search
\* then returned rows.
C9_Witness ==
  /\ Returned
  /\ vectorResults.error
  /\ Logged("keyword-return")
  /\ Len(retResult.value) >= 2

\* A run of more than three non-whitespace characters in the query.
HasLongWord(q) ==
  \E i \in 1..Len(q) :
    /\ i + KEYWORD_MIN_LENGTH <= Len(q)
    /\ \A k \in i..(i + KEYWORD_MIN_LENGTH) : q[k] \notin Whitespace

KeywordCall == retLog[CHOOSE j \in 1..Len(retLog) : retLog[j].ev = "keyword-call"]

IsUpper(c) == LowerOf(c) # c

\* C10: within one call the keyword search is invoked if and only if the
\* vector search returned fewer than 3 rows (an error or null counting as 0)
\* and the query has a keyword (a lowercased whitespace-separated token longer
\* than 3 characters; at most the first 5 are used, in order); the vector
\* search was issued and answered before; "a is it" never triggers it.
C10_KeywordSearchIffSparseAndKeywords ==
  /\ \A j \in 1..Len(retLog) :
       retLog[j].ev = "keyword-call" =>
         /\ \E i \in 1..(j - 1) : retLog[i].ev = "vector-call"
         /\ retLog[j - 1].ev = "vector-return"
  /\ Logged("vector-return") =>
       (KeywordCalled <=> (Len(vectorResults.rows) < 3 /\ HasLongWord(query)))
  /\ ~Logged("vector-return") => ~KeywordCalled
  /\ query = <<"a", " ", "i", "s", " ", "i", "t">> => ~KeywordCalled
  /\ KeywordCalled =>
       /\ Len(KeywordCall.keywords) \in 1..5
       /\ \A k \in 1..Len(KeywordCall.keywords) :
            /\ Len(KeywordCall.keywords[k]) > 3
            /\ \A c \in 1..Len(KeywordCall.keywords[k]) :
                 /\ ~IsUpper(KeywordCall.keywords[k][c])
                 /\ KeywordCall.keywords[k][c] \notin Whitespace
       /\ query = <<"a", "l", "p", "h", "a", " ", "b", "e", "t", "a", " ", "g", "a", "m", "m", "a", " ", "d", "e", "l", "t", "a", " ", "e", "p", "s", "i", "l", "o", "n", " ", "z", "e", "t", "a">> =>
            KeywordCall.keywords =
              <<<<"a", "l", "p", "h", "a">>,
                <<"b", "e", "t", "a">>,
                <<"g", "a", "m", "m", "a">>,
                <<"d", "e", "l", "t", "a">>,
                <<"e", "p", "s", "i", "l", "o", "n">>>>
       /\ query = <<"W", "h", "a", "t", " ", "I", "S", " ", "p", "g", "v", "e", "c", "t", "o", "r">> =>
            KeywordCall.keywords =
              <<<<"w", "h", "a", "t">>,
                <<"p", "g", "v", "e", "c", "t", "o", "r">>>>

\* C10 witness: two vector rows came back and the keyword search was called
\* with the first five of the query's six long words.
C10_Witness ==
  /\ rpc = "done"
  /\ Len(vectorResults.rows) = 2
  /\ KeywordCalled
  /\ Len(KeywordCall.keywords) = 5

(***************************************************************************)
(* Further claims about chunkText, checked under SpecChunk.                *)
(***************************************************************************)
\* The 0-based positions of the first and the last non-space character of
\* the slice [r.start, r.end) of the normalized text.
ContentStart(r) ==
  CHOOSE i \in r.start..(Len(cleanText) - 1) :
    /\ cleanText[i + 1] # " "
    /\ \A j \in r.start..(i - 1) : cleanText[j + 1] = " "

ContentEnd(r) ==
  CHOOSE i \in r.start..(Min2(r.end, Len(cleanText)) - 1) :
    /\ cleanText[i + 1] # " "
    /\ \A j \in (i + 1)..(Min2(r.end, Len(cleanText)) - 1) : cleanText[j + 1] = " "

IsWordStart(i) == cleanText[i + 1] # " " /\ (i = 0 \/ cleanText[i] = " ")

IsWordEnd(i) ==
  cleanText[i + 1] # " " /\ (i = Len(cleanText) - 1 \/ cleanText[i + 2] = " ")

IsHelloWorldCall ==
  text = HelloWorldText /\ argc = 3 /\ chunkSize = 20 /\ overlap = 5

\* C11: chunkText("Hello world. This is a test! Another sentence?", 20, 5)
\* returns at least 2 chunks, every content is non-empty, and no chunk is cut
\* mid-word: each begins at the first character of a word and ends at the
\* last character of a word.
C11_HelloWorldNeverCutMidWord ==
  (IsHelloWorldCall /\ cpc = "done") =>
    /\ Len(chunks) >= 2
    /\ \A k \in 1..Len(chunks) : Len(chunks[k].content) > 0
    /\ \A k \in 1..Len(ranges) :
         ranges[k].emitted =>
           /\ IsWordStart(ContentStart(ranges[k]))
           /\ IsWordEnd(ContentEnd(ranges[k]))

IsWhitespaceOnly(t) == \A i \in 1..Len(t) : t[i] \in Whitespace

\* C12: every returned chunk has a non-empty content with no leading or
\* trailing whitespace and no run of two whitespace characters; the index
\* fields are 0, 1, ..., n-1 in order (a skipped empty slice consumes no
\* index); an empty or whitespace-only text yields the empty sequence.
C12_ChunksNormalizedAndNumbered ==
  /\ \A k \in 1..Len(chunks) :
       LET c == chunks[k].content
       IN  /\ chunks[k].index = k - 1
           /\ Len(c) > 0
           /\ c[1] \notin Whitespace
           /\ c[Len(c)] \notin Whitespace
           /\ \A i \in 1..(Len(c) - 1) :
                ~(c[i] \in Whitespace /\ c[i + 1] \in Whitespace)
  /\ chunkIndex = Len(chunks)
  /\ (IsWhitespaceOnly(text) /\ cpc # "call") => (cpc = "done" /\ chunks = <<>>)

\* C12 witness: a finished run that skipped an empty slice and emitted a
\* chunk after it, on a text that held a run of whitespace.
C12_Witness ==
  /\ cpc = "done"
  /\ Len(chunks) >= 2
  /\ \E k \in 1..(Len(ranges) - 1) : ~ranges[k].emitted /\ ranges[k + 1].emitted
  /\ \E i \in 1..(Len(text) - 1) : text[i] \in Whitespace /\ text[i + 1] \in Whitespace

\* C17 as stated: a call with the text only runs with chunkSize = 1000 and
\* overlap = 200.
C17_TextOnlyCallUses1000And200 ==
  argc = 1 => (chunkSize = 1000 /\ overlap = 200)

\* C17 as amended: a call with the text only runs with chunkSize = 1000 and
\* overlap = 500.
C17_TextOnlyCallUses1000And500 ==
  argc = 1 => (chunkSize = 1000 /\ overlap = 500)

\* C17 witness: a text-only call that returned chunks.
C17_Witness == argc = 1 /\ cpc = "done" /\ chunks # <<>>

\* The positions at or before naiveEnd where a sentence terminator is followed
\* by a space, and where a space stands.
TerminatorsUpTo(naiveEnd) ==
  {i \in 0..Min2(naiveEnd, Len(cleanText) - 2) :
     cleanText[i + 1] \in {".", "?", "!"} /\ cleanText[i + 2] = " "}

SpacesUpTo(naiveEnd) ==
  {i \in 0..Min2(naiveEnd, Len(cleanText) - 1) : cleanText[i + 1] = " "}

Rightmost(S) == CHOOSE i \in S : \A j \in S : j <= i

\* C18: in an iteration whose naive end start + chunkSize is before the end
\* of the normalized text, the end index is one past the rightmost sentence
\* terminator found backward from the naive end if that lies after start;
\* otherwise the nearest space found backward from the naive end if that lies
\* after start; otherwise the naive end.  At or past the end of the text the
\* end index is the naive end.
C18_EndIndexPrefersSentenceBoundary ==
  \A k \in 1..Len(ranges) :
    LET start == ranges[k].start
        naiveEnd == start + chunkSize
        terms == {i \in TerminatorsUpTo(naiveEnd) : i > start}
        spaces == {i \in SpacesUpTo(naiveEnd) : i > start}
    IN  ranges[k].end =
          IF naiveEnd >= Len(cleanText) THEN naiveEnd
          ELSE IF terms # {} THEN Rightmost(terms) + 1
          ELSE IF spaces # {} THEN Rightmost(spaces)
          ELSE naiveEnd

\* C18 witness: an iteration that ended at a sentence terminator although a
\* space nearer to the naive end lay after it.
C18_Witness ==
  \E k \in 1..Len(ranges) :
    /\ ranges[k].start + chunkSize < Len(cleanText)
    /\ \E i \in SpacesUpTo(ranges[k].start + chunkSize) : i > ranges[k].end
    /\ cleanText[ranges[k].end] \in {".", "?", "!"}

(***************************************************************************)
(* Further claims about generateEmbeddings, checked under SpecEmbed.       *)
(***************************************************************************)
DelaysIn(log) == {j \in 1..Len(log) : log[j].ev = "delay"}
ResponsesIn(log) == {j \in 1..Len(log) : log[j].ev = "response"}

\* C13: on a successful run the batch calls are issued one after another in
\* batch order, call k+1 only after call k returned and after exactly one
\* delay, with no delay after the last call: n batches make n calls and n-1
\* delays.
C13_SequentialCallsWithDelaysBetween ==
  /\ \A j \in CallsIn(embLog) :
       /\ embLog[j].batch = Cardinality({i \in CallsIn(embLog) : i < j})
       /\ embLog[j].batch > 0 =>
            /\ j >= 3
            /\ embLog[j - 1] = [ev |-> "delay", batch |-> embLog[j].batch - 1]
            /\ embLog[j - 2] = [ev |-> "response", batch |-> embLog[j].batch - 1]
       /\ j < Len(embLog) => embLog[j + 1].ev \in {"response", "error"}
  /\ \A j \in DelaysIn(embLog) :
       /\ j >= 2 /\ embLog[j - 1].ev = "response"
       /\ embLog[j].batch < Len(batches) - 1
       /\ j < Len(embLog) => embLog[j + 1].ev = "call"
  /\ (epc = "done" /\ embResult.kind = "value") =>
       /\ Cardinality(CallsIn(embLog)) = Len(batches)
       /\ Cardinality(ResponsesIn(embLog)) = Len(batches)
       /\ Cardinality(DelaysIn(embLog)) = Max2(Len(batches) - 1, 0)
       /\ Len(batches) > 0 => embLog[Len(embLog)].ev = "response"

\* C13 witness: a successful run of three batches.
C13_Witness ==
  /\ epc = "done"
  /\ embResult.kind = "value"
  /\ Len(batches) = 3
  /\ Cardinality(DelaysIn(embLog)) = 2

\* C19: the batch plan is the greedy single-pass partition into contiguous
\* runs: the batches concatenated give the input list, a text stays in the
\* current batch whenever the running estimate plus its estimate is at most
\* 250000, and a batch is closed before a text exactly when the batch is
\* non-empty and the running estimate plus the text's estimate exceeds 250000.
C19_GreedyContiguousPlan ==
  Planned =>
    /\ Flatten(batches) = texts
    /\ \A b \in 1..Len(batches) :
         /\ Len(batches[b]) >= 1
         /\ \A k \in 1..(Len(batches[b]) - 1) :
              SumTokens(SubSeq(batches[b], 1, k)) + estimateTokens(batches[b][k + 1])
                <= MAX_TOKENS_PER_BATCH
         /\ b < Len(batches) =>
              SumTokens(batches[b]) + estimateTokens(batches[b + 1][1])
                > MAX_TOKENS_PER_BATCH

\* C19 witness: a batch whose two texts bring the estimate to exactly 250000,
\* closed before a third text.
C19_Witness ==
  /\ Planned
  /\ Len(batches) = 2
  /\ Len(batches[1]) = 2
  /\ SumTokens(batches[1]) = MAX_TOKENS_PER_BATCH

(***************************************************************************)
(* Further claims about retrieveRelevantChunks and the context block,      *)
(* checked under SpecRetrieve.                                             *)
(***************************************************************************)
\* The merge step ran: the function returned after the vector search answered.
Merged == Returned /\ Logged("vector-return")

AllResults == OrEmpty(vectorResults) \o keywordResults

SimilaritiesOf(entries, id) ==
  {entries[k].similarity : k \in EntriesWithId(entries, id)}

\* C14: for each chunk id in the vector results, the keyword results or both,
\* the merge keeps exactly one entry, and it carries the highest similarity
\* among all entries with that id; no two kept entries share an id.
C14_MergeKeepsHighestSimilarityPerId ==
  Merged =>
    /\ IdsOf(uniqueResults) = IdsOf(AllResults)
    /\ \A id \in IdsOf(AllResults) :
         /\ Cardinality(EntriesWithId(uniqueResults, id)) = 1
         /\ \A k \in EntriesWithId(uniqueResults, id) :
              /\ uniqueResults[k].similarity \in SimilaritiesOf(AllResults, id)
              /\ \A sim \in SimilaritiesOf(AllResults, id) :
                   uniqueResults[k].similarity >= sim

\* C14 witness: the merge held an id of both sets whose keyword entry was the
\* higher one, an id of both sets whose vector entry was the higher one, and
\* an id of the keyword set only.
C14_Witness ==
  /\ Merged
  /\ \E id \in InBothSets : VectorRowOf(id).similarity < KEYWORD_SIMILARITY
  /\ \E id \in InBothSets : VectorRowOf(id).similarity > KEYWORD_SIMILARITY
  /\ IdsOf(keywordResults) \ IdsOf(OrEmpty(vectorResults)) # {}

EntriesOf(ctx) == SelectSeq(ctx, LAMBDA piece : piece.kind = "entry")

\* C15: the context block has exactly one entry per retrieved chunk, in the
\* order the retriever returned them, the entry of the chunk at 0-based
\* position i being numbered i + 1; with no chunk the context is the empty
\* string, without the header.
C15_ContextNumbersEntriesFromOne ==
  ppc = "built" =>
    /\ Len(EntriesOf(context)) = Len(retResult.value)
    /\ \A i \in 0..(Len(retResult.value) - 1) :
         /\ EntriesOf(context)[i + 1].number = i + 1
         /\ EntriesOf(context)[i + 1].content = retResult.value[i + 1].id
    /\ retResult.value # <<>> =>
         /\ Len(context) = Len(retResult.value) + 1
         /\ context[1].kind = "header"
    /\ retResult.value = <<>> => context = <<>>

\* C15 witness: a context block built from three retrieved chunks.
C15_Witness ==
  /\ ppc = "built"
  /\ Len(retResult.value) = 3
  /\ Len(context) = 4

\* C16: a call with a non-positive topK signals an input error to its caller
\* instead of running the searches and returning a result sequence.
C16_NonPositiveTopKIsAnInputError ==
  topK <= 0 =>
    /\ ~Logged("vector-call")
    /\ rpc = "done" => retResult.kind = "error"

\* The position at which an id was first discovered: in the vector rows, and
\* after them in the keyword rows.
DiscoveryRank(id) ==
  CHOOSE k \in 1..Len(AllResults) :
    /\ AllResults[k].id = id
    /\ \A j \in 1..(k - 1) : AllResults[j].id # id

\* C20: in the returned list entries of equal similarity are in discovery
\* order: vector-first-seen before keyword-only, each source's own order
\* kept, and an id of both sources at the position of its vector entry even
\* when the keyword entry replaced it.
C20_TiesInDiscoveryOrder ==
  Merged =>
    \A i, j \in 1..Len(retResult.value) :
      (i < j /\ retResult.value[i].similarity = retResult.value[j].similarity) =>
        DiscoveryRank(retResult.value[i].id) < DiscoveryRank(retResult.value[j].id)

\* C20 witness: a keyword entry that replaced its vector entry is returned
\* before a tied keyword-only entry that the keyword search listed first.
C20_Witness ==
  /\ Merged
  /\ \E i, j \in 1..Len(retResult.value) :
       /\ i < j
       /\ retResult.value[i].similarity = retResult.value[j].similarity
       /\ retResult.value[i].via = "keyword"
       /\ retResult.value[i].id \in InBothSets
       /\ retResult.value[j].id \notin IdsOf(OrEmpty(vectorResults))
       /\ \E a, b \in 1..Len(keywordResults) :
            /\ a < b
            /\ keywordResults[a].id = retResult.value[j].id
            /\ keywordResults[b].id = retResult.value[i].id

(***************************************************************************)
(* Claims about the size of a chunk and the end of the chunkText loop,     *)
(* checked under SpecChunk.                                                *)
(***************************************************************************)
\* C23: every chunk emitted with chunkSize >= 1 has a content of at most
\* chunkSize characters, also when a sentence terminator sits exactly at the
\* naive end index start + chunkSize.
C23_ChunkContentWithinChunkSize ==
  chunkSize >= 1 =>
    \A k \in 1..Len(chunks) : Len(chunks[k].content) <= chunkSize

\* C24: once a chunk whose range reaches the end of the normalized text has
\* been emitted, no further chunk is emitted.
C24_NoChunkAfterTheEndIsReached ==
  \A k \in 1..Len(ranges) :
    (ranges[k].emitted /\ ranges[k].end >= Len(cleanText)) =>
      \A j \in (k + 1)..Len(ranges) : ~ranges[j].emitted

(***************************************************************************)
(* A claim about the rank of keyword rows, checked under SpecRetrieve.     *)
(***************************************************************************)
KeywordOnlyIds == IdsOf(keywordResults) \ IdsOf(OrEmpty(vectorResults))

\* The ids the vector search alone returned, with a similarity below the
\* keyword default.
LowVectorOnlyIds ==
  {id \in IdsOf(OrEmpty(vectorResults)) \ IdsOf(keywordResults) :
     VectorRowOf(id).similarity < KEYWORD_SIMILARITY}

PositionIn(entries, id) == CHOOSE k \in 1..Len(entries) : entries[k].id = id

\* C21: a keyword-only result (similarity 0.5) outranks a vector result whose
\* similarity is below 0.5: whenever such a vector result is returned, every
\* keyword-only result is returned before it, so that on truncation to topK
\* the vector result is the one dropped while keyword-only results remain.
C21_KeywordDefaultOutranksLowVector ==
  (Merged /\ topK > 0) =>
    \A v \in LowVectorOnlyIds \cap IdsOf(retResult.value) :
      \A kw \in KeywordOnlyIds :
        /\ kw \in IdsOf(retResult.value)
        /\ PositionIn(retResult.value, kw) < PositionIn(retResult.value, v)

\* C21 witness: the merged set held more than topK entries; a keyword-only
\* result is returned above a vector result below 0.5, and another vector
\* result below 0.5 was truncated out.
C21_Witness ==
  /\ Merged
  /\ Len(uniqueResults) > topK
  /\ \E v \in LowVectorOnlyIds \cap IdsOf(retResult.value) :
       \E kw \in KeywordOnlyIds :
         PositionIn(retResult.value, kw) < PositionIn(retResult.value, v)
  /\ \E v \in LowVectorOnlyIds : v \notin IdsOf(retResult.value)
  /\ KeywordOnlyIds \subseteq IdsOf(retResult.value)

(***************************************************************************)
(* A claim about the chunkText of src/unnamed/part_001, checked under      *)
(* SpecOlderChunk.                                                         *)
(***************************************************************************)
\* C26: the chunkText of part_001 makes startIndex strictly larger on every
\* loop iteration, for every text with chunkSize >= 1 and
\* 0 <= overlap < chunkSize, and so terminates; in particular for
\* "Hello world. This is a test! Another sentence?" with 20 and 5.
C26_OlderVariantStrictProgress ==
  [][(iter' = iter + 1 /\ chunkSize >= 1 /\ overlap >= 0 /\ overlap < chunkSize)
       => startIndex' > startIndex]_vars

(***************************************************************************)
(* Claims about POST /api/upload, checked under SpecUpload.                *)
(***************************************************************************)
\* No DELETE request has been received.
NoDeleteReceived == \A d \in Deletes : dpc[d] = "idle"

\* C25: whenever the upload ends with an error response after the file was
\* written to storage, neither the stored file nor the request's documents
\* row remains; once the request has ended a documents row exists only
\* together with its chunk rows.
C25_FailedUploadLeavesNothingBehind ==
  /\ (upc = "done" /\ NoDeleteReceived /\ upResponse.kind = "error"
        /\ upResponse.stage \notin {"nofile", "request", "store"}) =>
       (~storedFile /\ ~documentRow)
  /\ (upc = "done" /\ NoDeleteReceived /\ documentRow) => chunkRows # <<>>

====
